---- MODULE Spec2Model ----
(***************************************************************************)
(* Socket compressed-executable decompressors: the caching Mach-O          *)
(* decompressor (socket_macho_decompress.cc) and the temp-file ELF and PE  *)
(* decompressors (socketsecurity_elf_decompress.c, socket_pe_decompress.c),*)
(* as invocations (processes) over one shared cache directory tree.        *)
(* Beside them the three companion compressors (socket_macho_compress.cc,  *)
(* socketsecurity_elf_compress.c, socket_pe_compress.c) and the Brotli     *)
(* builtin loader (socketsecurity_brotli_builtin_loader.h), each as one    *)
(* step from its input to its result.                                      *)
(*                                                                         *)
(* A byte vector is abstracted to [n |-> its length, tag |-> what bytes    *)
(* it holds]; two vectors are byte-identical iff the records are equal.    *)
(* A hex digest is the tuple <<chars, n, tag>> of the vector that was      *)
(* hashed (an ideal, collision-free SHA-512); the empty string is <<>>.    *)
(***************************************************************************)
EXTENDS Integers, Sequences, FiniteSets, TLC

(* ---------------- program constants ---------------- *)
HeaderSize == 24
MAGIC_SCMP == 1347240787
MAGIC_SELF == 1397050438
MAGIC_SEPE == 1397051461
ALGO_LZMA == 1
ALGO_ZSTD == 2
ALGO_LZ4 == 3
MAGIC_BROT == 1414484546
BROTLI_HEADER_SIZE == 12
MAX_DECOMPRESSED_SIZE == 52428800
BlockSize == 4096
MarkerLen == 12
KeyChars == 16
DigestChars == 128

(* ---------------- bounds ---------------- *)
NumProcs == 2
NumTags == 2
MaxRuns == 2
\* CC_LONG is uint32_t: lengths passed to CC_SHA512 are taken modulo 2^32.
\* TLC integers are 32 bits wide themselves, so the model narrows CC_LONG to
\* 16 bits; sizes at and above this range stand for sizes of 4 GiB and more.
CC_LONG_RANGE == 65536

\* Exit codes of the launched program: 0..MaxExit.
MaxExit == 1

Procs == 1..NumProcs

ChildCodes == 0..MaxExit

\* argv[2..argc-1] of an invocation. An argument is the sequence of its
\* blank-separated words: <<"v">> is one word, <<"a", "b">> is "a b", <<>>
\* is the empty string.
ArgLists ==
  { <<>>,
    << <<"a", "b">>, <<"v">> >>,
    << <<>>, <<"v">> >> }

(* ---------------- byte vectors and digests ---------------- *)
Empty == [n |-> 0, tag |-> 0]

Vec(n, tag) == IF n = 0 THEN Empty ELSE [n |-> n, tag |-> tag]

Prefix(v, m) == IF m >= v.n THEN v ELSE Vec(m, v.tag)

Min(a, b) == IF a < b THEN a ELSE b

EmptyString == <<>>

\* CC_SHA512(data, len) rendered as the first `chars' hex characters.
HexOfSHA512(v, chars) == <<chars, v.n, v.tag>>

\* static_cast<CC_LONG>(data.size()): the length is cut to 32 bits.
CalculateCacheKey(data) == HexOfSHA512(Prefix(data, data.n % CC_LONG_RANGE), KeyChars)

CalculateSHA512(data) == HexOfSHA512(Prefix(data, data.n % CC_LONG_RANGE), DigestChars)

\* CalculateFileSHA512 streams the file in 8192-byte chunks: no length cut.
CalculateFileSHA512(content) == HexOfSHA512(content, DigestChars)

(* ---------------- container files (the inputs) ---------------- *)
\* len: file length; magic .. compressed_size: the header fields (read only
\* when len >= HeaderSize); id: identity of the file's bytes; plain, ptag:
\* length and identity of what the payload really decodes to (plain = 0: the
\* backend rejects the payload); markerAt: offset of "SOCKET_SPEC:" or -1;
\* specLen, specTag: the identifier text between the marker and the newline.
NoMarker == -1
SpecTagA == 101
PayloadLen == 8
LongPayloadLen == 5000
BigSize == CC_LONG_RANGE + 1

Base == [id |-> 1, readable |-> TRUE, len |-> HeaderSize + PayloadLen,
         magic |-> MAGIC_SCMP, algorithm |-> ALGO_LZMA,
         original_size |-> 2, compressed_size |-> PayloadLen,
         plain |-> 2, ptag |-> 1,
         markerAt |-> NoMarker, specLen |-> 0, specTag |-> 0]

\* A container long enough for the identifier search, carrying identifier A.
WithSpec(c, at) == [c EXCEPT !.len = HeaderSize + LongPayloadLen,
                             !.compressed_size = LongPayloadLen,
                             !.markerAt = at, !.specLen = 5, !.specTag = SpecTagA]

\* Containers of the make the companion compressors write.
WellFormed ==
  { Base,
    [Base EXCEPT !.id = 2, !.magic = MAGIC_SELF],
    [Base EXCEPT !.id = 10, !.magic = MAGIC_SEPE],
    [WithSpec(Base, 100) EXCEPT !.id = 3] } \cup
  { [WithSpec(Base, 100) EXCEPT !.id = 3 + t, !.ptag = t] : t \in 2..NumTags } \cup
  { [WithSpec(Base, 100) EXCEPT !.id = 20, !.original_size = BigSize, !.plain = BigSize] }

\* Files that are not what a compressor writes.
Malformed ==
  { [Base EXCEPT !.id = 30, !.readable = FALSE],
    [Base EXCEPT !.id = 31, !.len = 0],
    [Base EXCEPT !.id = 32, !.len = HeaderSize - 1],
    [WithSpec(Base, 100) EXCEPT !.id = 33, !.magic = MAGIC_SEPE],
    [WithSpec(Base, 100) EXCEPT !.id = 34, !.compressed_size = LongPayloadLen + 1],
    [WithSpec(Base, 100) EXCEPT !.id = 35, !.compressed_size = LongPayloadLen - 1],
    [WithSpec(Base, 100) EXCEPT !.id = 36, !.plain = 1],
    [WithSpec(Base, 100) EXCEPT !.id = 37, !.plain = 0],
    [WithSpec(Base, 100) EXCEPT !.id = 38, !.original_size = 0],
    [Base EXCEPT !.id = 39, !.magic = MAGIC_SELF, !.compressed_size = PayloadLen + 1],
    [Base EXCEPT !.id = 40, !.magic = MAGIC_SELF, !.plain = 1],
    [Base EXCEPT !.id = 41, !.magic = MAGIC_SELF, !.algorithm = 2],
    [WithSpec(Base, 100) EXCEPT !.id = 42, !.plain = 3],
    [Base EXCEPT !.id = 43, !.magic = MAGIC_SELF, !.plain = 3],
    [Base EXCEPT !.id = 44, !.magic = MAGIC_SEPE, !.plain = 0],
    [Base EXCEPT !.id = 45, !.magic = MAGIC_SEPE, !.plain = 1],
    [Base EXCEPT !.id = 46, !.len = 1] }

\* Containers carrying identifier A where the block-wise search does not
\* look: the marker straddles the end of the first block, the marker lies
\* in the last, partial block, the newline lies beyond the marker's block.
\* Their payload is one the backend rejects.
MarkerElsewhere ==
  { [WithSpec(Base, BlockSize - 6) EXCEPT !.id = 50, !.plain = 0],
    [WithSpec(Base, BlockSize + 100) EXCEPT !.id = 51, !.plain = 0],
    [WithSpec(Base, BlockSize - MarkerLen - 3) EXCEPT !.id = 52, !.plain = 0] }

\* Containers without identifier whose file length reaches the range of
\* CC_LONG: one byte-count above it, and exactly it. Their payload is one
\* the backend rejects.
LargeContainers ==
  { [Base EXCEPT !.id = 60, !.len = BigSize + HeaderSize,
                 !.compressed_size = BigSize, !.plain = 0],
    [Base EXCEPT !.id = 61, !.len = CC_LONG_RANGE,
                 !.compressed_size = CC_LONG_RANGE - HeaderSize, !.plain = 0] }

Containers == WellFormed \cup Malformed \cup MarkerElsewhere \cup LargeContainers

FileBytes(c) == Vec(c.len, c.id)

PayloadBytes(c) == c.len - HeaderSize

\* ExtractEmbeddedSpec: the file is searched one full 4096-byte block at a
\* time (file.read fails on the last, partial block, which ends the loop);
\* marker and newline must both lie inside the same block.
SpecInBlock(c, b) ==
  /\ c.markerAt >= b * BlockSize
  /\ c.markerAt + MarkerLen <= (b + 1) * BlockSize
  /\ c.markerAt + MarkerLen + c.specLen < (b + 1) * BlockSize

ExtractEmbeddedSpec(c) ==
  IF /\ c.readable
     /\ c.markerAt # NoMarker
     /\ \E b \in 0..((c.len \div BlockSize) - 1) : SpecInBlock(c, b)
  THEN Vec(c.specLen, c.specTag)
  ELSE Empty

\* DecompressAndExecute lines 263-284: strategy 1, else strategy 2.
CacheKeyOf(c) ==
  IF ExtractEmbeddedSpec(c) # Empty
  THEN CalculateCacheKey(ExtractEmbeddedSpec(c))
  ELSE CalculateCacheKey(FileBytes(c))

Keys == { CacheKeyOf(c) : c \in Containers }

(* ---------------- state ---------------- *)
VARIABLES
  dir,    \* dir[k]: the cache directory <home>/.socket/_dlx/<k> exists
  bin,    \* bin[k]: the file <cache_dir>/node
  meta,   \* meta[k]: the file <cache_dir>/.dlx-metadata.json
  pc,     \* pc[p]: where invocation p stands
  inv,    \* inv[p]: the locals of invocation p and what it has done so far
  runs    \* number of invocations started so far

vars == <<dir, bin, meta, pc, inv, runs>>

\* complete: the last WriteFile on the file ran to its end and the file holds
\* exactly the bytes that call was given (history flag).
NoFile == [exists |-> FALSE, content |-> Empty, exec |-> FALSE, complete |-> FALSE]

\* timestamp: the "timestamp" field of the record, 0 when there is none.
NoMeta == [exists |-> FALSE, hasChecksum |-> FALSE, checksum |-> EmptyString,
           timestamp |-> 0]

NotRun == [path |-> "none", content |-> Empty, complete |-> FALSE, exec |-> FALSE]

\* exit: the value main returned, or the exit code of the program that
\* took the process over; NoExit while there is none.
NoExit == -1

TamperTag == 90
MixTag == 95

Fresh == [family |-> "none", c |-> Base, cacheKey |-> EmptyString,
          cached_sha512 |-> EmptyString, verified |-> "none",
          decompressed_sha512 |-> EmptyString,
          outcome |-> "running", err |-> "none",
          backendCalls |-> 0, src_size |-> 0, result |-> 0,
          wrote |-> {}, faults |-> {}, seen |-> NoFile,
          ran |-> NotRun, tmp |-> NoFile,
          startValid |-> FALSE, startMismatch |-> FALSE, startMeta |-> NoMeta,
          exit |-> NoExit, argv |-> <<>>, new_argv |-> <<>>,
          quality |-> "none"]

\* The entry of key k is as a complete Populate of container c leaves it:
\* the artifact of c fully written and executable, and the metadata record
\* that lines 439 and 474 write for it.
PopulatedEntry(k, c) ==
  /\ bin[k].exists /\ bin[k].complete /\ bin[k].exec
  /\ bin[k].content = Vec(c.original_size, c.ptag)
  /\ meta[k].exists /\ meta[k].hasChecksum
  /\ meta[k].checksum = CalculateSHA512(bin[k].content)

\* The artifact of key k exists and the metadata records another digest.
MismatchEntry(k) ==
  /\ bin[k].exists
  /\ meta[k].exists /\ meta[k].hasChecksum
  /\ meta[k].checksum # CalculateFileSHA512(bin[k].content)

Init ==
  /\ dir = [k \in Keys |-> FALSE]
  /\ bin = [k \in Keys |-> NoFile]
  /\ meta = [k \in Keys |-> NoMeta]
  /\ pc = [p \in Procs |-> "idle"]
  /\ inv = [p \in Procs |-> Fresh]
  /\ runs = 0

Set(p, r) == inv' = [inv EXCEPT ![p] = r]

Goto(p, l) == pc' = [pc EXCEPT ![p] = l]

\* r after the system call named f has failed under it.
Faulted(r, f) == [r EXCEPT !.faults = @ \cup {f}]

\* return 1 with a message on the error stream.
Fail(p, r, e) ==
  /\ Set(p, [r EXCEPT !.outcome = "failed", !.err = e, !.exit = 1])
  /\ Goto(p, "done")

\* The process is ended by a signal: an exception nobody catches reaches
\* std::terminate, or a null pointer is written through. No exit code.
Abort(p, r, e) ==
  /\ Set(p, [r EXCEPT !.outcome = "aborted", !.err = e])
  /\ Goto(p, "done")

\* execv(path, new_argv): replaces the process image when the file exists,
\* has its executable bits and is not empty; otherwise returns and the
\* caller prints an error and returns 1.
CanExec(f) == f.exists /\ f.exec /\ f.content # Empty

\* new_argv as the loops before execv build it: the path, then argv[2..].
NewArgv(path, argv) == << <<path>> >> \o argv

\* argv: argv[2..argc-1], which the code reads at this step only; code:
\* the exit code the launched program will end with.
ExecV(p, r, path, f, argv, code) ==
  IF CanExec(f)
  THEN /\ Set(p, [r EXCEPT !.outcome = "launched",
                           !.ran = [path |-> path, content |-> f.content,
                                    complete |-> f.complete, exec |-> f.exec],
                           !.argv = argv,
                           !.new_argv = NewArgv(path, argv),
                           !.exit = code])
       /\ Goto(p, "done")
  ELSE Fail(p, r, "LaunchFailed")

\* main, argc < 2: the usage text, return 1.
Usage(p, family) ==
  /\ pc[p] = "idle"
  /\ runs < MaxRuns
  /\ runs' = runs + 1
  /\ Fail(p, [Fresh EXCEPT !.family = family], "Usage")
  /\ UNCHANGED <<dir, bin, meta>>

(* ---------------- DecompressAndExecute (Mach-O) ---------------- *)
\* Lines 258-302: derive the key, read the container, resolve the cache root.
\* mem: std::vector<uint8_t> buffer(size) of ReadFile (line 209) gets its
\* memory; otherwise std::bad_alloc leaves main, which has no handler.
MachoStart(p, c, home, mem) ==
  /\ pc[p] = "idle"
  /\ runs < MaxRuns
  /\ runs' = runs + 1
  /\ LET r == [Fresh EXCEPT !.family = "macho", !.c = c,
                            !.cacheKey = CacheKeyOf(c),
                            !.startValid = PopulatedEntry(CacheKeyOf(c), c),
                            !.startMismatch = MismatchEntry(CacheKeyOf(c)),
                            !.startMeta = meta[CacheKeyOf(c)]]
     IN IF ~c.readable \/ c.len = 0
        THEN Fail(p, r, "CannotRead")
        ELSE IF ~mem
        THEN Abort(p, Faulted(r, "mem"), "BadAlloc")
        ELSE IF ~home
        THEN Fail(p, Faulted(r, "home"), "NoHome")
        ELSE Set(p, r) /\ Goto(p, "lookup")
  /\ UNCHANGED <<dir, bin, meta>>

\* Line 305: FileExists(cached_binary).
MachoLookup(p) ==
  /\ pc[p] = "lookup"
  /\ IF bin[inv[p].cacheKey].exists
     THEN Goto(p, "hash_cached")
     ELSE Goto(p, "decompress")
  /\ Set(p, [inv[p] EXCEPT !.seen = bin[inv[p].cacheKey]])
  /\ UNCHANGED <<dir, bin, meta, runs>>

\* Lines 310-313: digest of the cached file; "" when it cannot be opened.
MachoHashCached(p, opened) ==
  /\ pc[p] = "hash_cached"
  /\ LET f == bin[inv[p].cacheKey]
     IN IF f.exists /\ opened
        THEN /\ Set(p, [inv[p] EXCEPT !.cached_sha512 = CalculateFileSHA512(f.content)])
             /\ Goto(p, "read_meta")
        ELSE /\ Set(p, [Faulted(inv[p], "open_cached") EXCEPT !.cached_sha512 = EmptyString])
             /\ Goto(p, "decompress")
  /\ UNCHANGED <<dir, bin, meta, runs>>

\* As VerifyAgainst, with a record without checksum line taken as a match.
VerifyAgainst_Lenient(m, cached_sha512) ==
  IF ~m.exists THEN "nometa"
  ELSE IF ~m.hasChecksum \/ m.checksum = cached_sha512 THEN "verified"
  ELSE "skipped"

\* Lines 315-342: look for the checksum line of the metadata and compare.
VerifyAgainst(m, cached_sha512) ==
  IF ~m.exists THEN "nometa"
  ELSE IF m.hasChecksum /\ m.checksum = cached_sha512 THEN "verified"
  ELSE "skipped"

MachoReadMeta(p) ==
  /\ pc[p] = "read_meta"
  /\ Set(p, [inv[p] EXCEPT !.verified =
                 VerifyAgainst(meta[inv[p].cacheKey], inv[p].cached_sha512)])
  /\ Goto(p, "exec_hit")
  /\ UNCHANGED <<dir, bin, meta, runs>>

\* Lines 344-361: execute the cached binary, whatever the comparison said.
MachoExecHit(p, argv, code) ==
  /\ pc[p] = "exec_hit"
  /\ ExecV(p, inv[p], "cache", bin[inv[p].cacheKey], argv, code)
  /\ UNCHANGED <<dir, bin, meta, runs>>

\* compression_decode_buffer(dst, original_size, src, compressed_size, ..):
\* the number of bytes written, at most the destination size, 0 on error.
\* When compressed_size is not the number of bytes that follow the header
\* the decoder is fed a cut stream or reads past the buffer: any outcome.
Decoded(c) == Min(c.plain, c.original_size)

BackendResults(c) ==
  IF c.compressed_size = PayloadBytes(c)
  THEN {Decoded(c)}
  ELSE {0, Decoded(c)}

\* As BackendFailed, with no return value taken for an error.
BackendFailed_Never(result) == FALSE

\* Line 419: a return value of 0 is the backend's error report.
BackendFailed(result) == result = 0

\* Line 425: result != header->original_size is an error.
SizeMatches_Lax(result, original_size) == result <= original_size

SizeMatches(result, original_size) == result = original_size

\* Lines 368-440: header checks, allocation, decompression, digest.
MachoDecompress(p, mapped, result) ==
  /\ pc[p] = "decompress"
  /\ LET r == inv[p]
         c == inv[p].c
         called == [r EXCEPT !.backendCalls = @ + 1,
                             !.src_size = c.compressed_size,
                             !.result = result]
     IN IF c.len < HeaderSize THEN Fail(p, r, "TooSmall")
        ELSE IF c.magic # MAGIC_SCMP THEN Fail(p, r, "BadMagic")
        ELSE IF c.original_size = 0 \/ ~mapped THEN Fail(p, r, "AllocFailed")
        ELSE /\ result \in BackendResults(c)
             /\ IF BackendFailed(result) THEN Fail(p, called, "DecompressionFailed")
                ELSE IF ~SizeMatches(result, c.original_size)
                THEN Fail(p, called, "SizeMismatch")
                ELSE /\ Set(p, [called EXCEPT !.decompressed_sha512 =
                                   CalculateSHA512(Vec(c.original_size, c.ptag))])
                     /\ Goto(p, "mkdir_stat")
  /\ UNCHANGED <<dir, bin, meta, runs>>

\* The decompressed buffer the Miss path writes to the cache.
Decompressed(p) == Vec(inv[p].c.original_size, inv[p].c.ptag)

\* CreateDirectory, line 174: stat() of the cache directory segment.
MachoMkdirStat(p) ==
  /\ pc[p] = "mkdir_stat"
  /\ IF dir[inv[p].cacheKey] THEN Goto(p, "write_open") ELSE Goto(p, "mkdir")
  /\ UNCHANGED <<dir, bin, meta, inv, runs>>

\* CreateDirectory, lines 175-177: mkdir() fails when the segment exists by
\* now or cannot be created; lines 444-448 then return 1.
MachoMkdir(p, ok) ==
  /\ pc[p] = "mkdir"
  /\ LET k == inv[p].cacheKey
     IN IF dir[k] \/ ~ok
        THEN Fail(p, Faulted(inv[p], "mkdir"), "MkdirFailed") /\ UNCHANGED dir
        ELSE /\ dir' = [dir EXCEPT ![k] = TRUE]
             /\ Set(p, [inv[p] EXCEPT !.wrote = @ \cup {"dir"}])
             /\ Goto(p, "write_open")
  /\ UNCHANGED <<bin, meta, runs>>

\* WriteFile, lines 220-223: std::ofstream(path, binary) creates the file
\* without executable bits or truncates the existing one, keeping its mode.
MachoWriteOpen(p, ok) ==
  /\ pc[p] = "write_open"
  /\ LET k == inv[p].cacheKey
     IN IF ~ok
        THEN Fail(p, Faulted(inv[p], "write"), "WriteFailed") /\ UNCHANGED bin
        ELSE /\ bin' = [bin EXCEPT ![k] = [exists |-> TRUE, content |-> Empty,
                                           exec |-> bin[k].exec, complete |-> FALSE]]
             /\ Set(p, [inv[p] EXCEPT !.wrote = @ \cup {"artifact"}])
             /\ Goto(p, "write_first")
  /\ UNCHANGED <<dir, meta, runs>>

Max(a, b) == IF a > b THEN a ELSE b

\* cnt bytes of data land at offset off of a file holding cur.
WriteAt(cur, data, off, cnt) ==
  LET newLen == Max(cur.n, off + cnt)
      before == off = 0 \/ (cur.n >= off /\ cur.tag = data.tag)
      after == cur.n <= off + cnt \/ cur.tag = data.tag
  IN IF before /\ after THEN Vec(newLen, data.tag) ELSE Vec(newLen, MixTag)

FirstPart(data) == data.n \div 2

\* WriteFile, line 225: file.write reaches the file in pieces; here two.
MachoWriteFirst(p, ok) ==
  /\ pc[p] = "write_first"
  /\ LET k == inv[p].cacheKey
         data == Decompressed(p)
     IN IF ~ok
        THEN Fail(p, Faulted(inv[p], "write"), "WriteFailed") /\ UNCHANGED bin
        ELSE /\ bin' = [bin EXCEPT ![k].content = WriteAt(@, data, 0, FirstPart(data)),
                                   ![k].complete = FALSE]
             /\ UNCHANGED inv
             /\ Goto(p, "write_rest")
  /\ UNCHANGED <<dir, meta, runs>>

\* As MachoWriteRest, with the result of WriteFile not looked at.
MachoWriteRest_Unchecked(p, ok) ==
  /\ pc[p] = "write_rest"
  /\ LET k == inv[p].cacheKey
         data == Decompressed(p)
         now == WriteAt(bin[k].content, data, FirstPart(data), data.n - FirstPart(data))
     IN IF ~ok
        THEN /\ Set(p, Faulted(inv[p], "write"))
             /\ UNCHANGED bin
        ELSE /\ bin' = [bin EXCEPT ![k].content = now,
                                   ![k].complete = (now = data)]
             /\ UNCHANGED inv
  /\ Goto(p, "chmod")
  /\ UNCHANGED <<dir, meta, runs>>

\* WriteFile, lines 225-226, and lines 453-457.
MachoWriteRest(p, ok) ==
  /\ pc[p] = "write_rest"
  /\ LET k == inv[p].cacheKey
         data == Decompressed(p)
         now == WriteAt(bin[k].content, data, FirstPart(data), data.n - FirstPart(data))
     IN IF ~ok
        THEN Fail(p, Faulted(inv[p], "write"), "WriteFailed") /\ UNCHANGED bin
        ELSE /\ bin' = [bin EXCEPT ![k].content = now,
                                   ![k].complete = (now = data)]
             /\ UNCHANGED inv
             /\ Goto(p, "chmod")
  /\ UNCHANGED <<dir, meta, runs>>

\* Line 460: chmod(cached_binary, 0755); the return value is not looked at.
MachoChmod(p, ok) ==
  /\ pc[p] = "chmod"
  /\ LET k == inv[p].cacheKey
     IN IF ok /\ bin[k].exists
        THEN /\ bin' = [bin EXCEPT ![k].exec = TRUE]
             /\ Set(p, [inv[p] EXCEPT !.wrote = @ \cup {"mode"}])
        ELSE /\ UNCHANGED bin
             /\ Set(p, [inv[p] EXCEPT !.faults = @ \cup {"chmod"}])
  /\ Goto(p, "write_meta")
  /\ UNCHANGED <<dir, meta, runs>>

\* Lines 469-504: the metadata record, with the digest of the buffer on its
\* checksum line and the time of the call (line 473) on its timestamp
\* line; the result of this WriteFile is not looked at. how: the write
\* succeeds, the open fails, or the write stops after the truncation.
MetaWrites == {"ok", "open_failed", "cut"}

\* time(nullptr): the clock ticks once with every invocation that starts.
Now == runs

MachoWriteMeta(p, how) ==
  /\ pc[p] = "write_meta"
  /\ how \in MetaWrites
  /\ LET k == inv[p].cacheKey
     IN CASE how = "ok" ->
               /\ meta' = [meta EXCEPT ![k] = [exists |-> TRUE, hasChecksum |-> TRUE,
                                               checksum |-> inv[p].decompressed_sha512,
                                               timestamp |-> Now]]
               /\ Set(p, [inv[p] EXCEPT !.wrote = @ \cup {"meta"}])
          [] how = "cut" ->
               /\ meta' = [meta EXCEPT ![k] = [exists |-> TRUE, hasChecksum |-> FALSE,
                                               checksum |-> EmptyString,
                                               timestamp |-> 0]]
               /\ Set(p, [inv[p] EXCEPT !.wrote = @ \cup {"meta"},
                                         !.faults = @ \cup {"meta"}])
          [] OTHER ->
               /\ UNCHANGED meta
               /\ Set(p, [inv[p] EXCEPT !.faults = @ \cup {"meta"}])
  /\ Goto(p, "exec_miss")
  /\ UNCHANGED <<dir, bin, runs>>

\* Lines 506-524: execute what is at the cache path now.
MachoExecMiss(p, argv, code) ==
  /\ pc[p] = "exec_miss"
  /\ ExecV(p, inv[p], "cache", bin[inv[p].cacheKey], argv, code)
  /\ UNCHANGED <<dir, bin, meta, runs>>

(* ---------------- decompress_and_execute (ELF) ---------------- *)
\* Lines 115-121: read_file.
ElfStart(p, c) ==
  /\ pc[p] = "idle"
  /\ runs < MaxRuns
  /\ runs' = runs + 1
  /\ LET r == [Fresh EXCEPT !.family = "elf", !.c = c]
     IN IF ~c.readable
        THEN Fail(p, r, "CannotRead")
        ELSE Set(p, r) /\ Goto(p, "elf_decompress")
  /\ UNCHANGED <<dir, bin, meta>>

\* lzma_stream_buffer_decode(.., input, compressed_size, output,
\* original_size): the pair <<ret = LZMA_OK, out_pos>>. A payload that does
\* not fit the output buffer is an error.
LzmaResults(c) ==
  LET proper == IF c.plain = 0 \/ c.plain > c.original_size
                THEN <<FALSE, 0>> ELSE <<TRUE, c.plain>>
  IN IF c.compressed_size = PayloadBytes(c)
     THEN {proper}
     ELSE {proper, <<FALSE, 0>>}

\* Line 154: the backend is chosen by header->algorithm.
Supported_Any(algorithm) == TRUE

Supported(algorithm) == algorithm = ALGO_LZMA

\* decompress_lzma, line 100: out_pos != output_size is an error.
OutPosMatches(out_pos, output_size) == out_pos = output_size

\* Lines 123-169 with decompress_lzma, lines 67-108.
ElfDecompress(p, allocated, res) ==
  /\ pc[p] = "elf_decompress"
  /\ LET r == inv[p]
         c == inv[p].c
         called == [r EXCEPT !.backendCalls = @ + 1,
                             !.src_size = c.compressed_size,
                             !.result = res[2]]
     IN IF c.len < HeaderSize THEN Fail(p, r, "TooSmall")
        ELSE IF c.magic # MAGIC_SELF THEN Fail(p, r, "BadMagic")
        ELSE IF ~Supported(c.algorithm) THEN Fail(p, r, "Unsupported")
        ELSE IF ~allocated THEN Fail(p, r, "AllocFailed")
        ELSE /\ res \in LzmaResults(c)
             /\ IF ~res[1] THEN Fail(p, called, "DecompressionFailed")
                ELSE IF ~OutPosMatches(res[2], c.original_size)
                THEN Fail(p, called, "SizeMismatch")
                ELSE Set(p, called) /\ Goto(p, "elf_mkstemp")
  /\ UNCHANGED <<dir, bin, meta, runs>>

\* Lines 176-183: mkstemp creates an empty file of mode 0600.
ElfMkstemp(p, ok) ==
  /\ pc[p] = "elf_mkstemp"
  /\ IF ~ok
     THEN Fail(p, inv[p], "TempFailed")
     ELSE /\ Set(p, [inv[p] EXCEPT !.tmp = [exists |-> TRUE, content |-> Empty,
                                           exec |-> FALSE, complete |-> FALSE],
                                   !.wrote = @ \cup {"tmp"}])
          /\ Goto(p, "elf_write")
  /\ UNCHANGED <<dir, bin, meta, runs>>

\* As ElfWrite, with the short write returning 1 and the file left behind.
ElfWrite_Leaves(p, written) ==
  /\ pc[p] = "elf_write"
  /\ LET data == Decompressed(p)
     IN IF written # data.n
        THEN Fail(p, inv[p], "WriteFailed")
        ELSE /\ Set(p, [inv[p] EXCEPT !.tmp.content = data, !.tmp.complete = TRUE])
             /\ Goto(p, "elf_chmod")
  /\ UNCHANGED <<dir, bin, meta, runs>>

\* Lines 185-194: one write(); anything but the whole buffer removes the
\* temporary file and returns 1.
ElfWrite(p, written) ==
  /\ pc[p] = "elf_write"
  /\ LET data == Decompressed(p)
     IN IF written # data.n
        THEN Fail(p, [inv[p] EXCEPT !.tmp = NoFile], "WriteFailed")
        ELSE /\ Set(p, [inv[p] EXCEPT !.tmp.content = data, !.tmp.complete = TRUE])
             /\ Goto(p, "elf_chmod")
  /\ UNCHANGED <<dir, bin, meta, runs>>

\* Line 197: chmod(temp_path, 0755); the return value is not looked at.
ElfChmod(p, ok) ==
  /\ pc[p] = "elf_chmod"
  /\ IF ok
     THEN Set(p, [inv[p] EXCEPT !.tmp.exec = TRUE, !.wrote = @ \cup {"mode"}])
     ELSE Set(p, [inv[p] EXCEPT !.faults = @ \cup {"chmod"}])
  /\ Goto(p, "elf_exec")
  /\ UNCHANGED <<dir, bin, meta, runs>>

\* Lines 205-222: execv of the temporary file; on failure unlink, return 1.
\* alloc: malloc of new_argv (line 206) returns memory; its result is not
\* tested, and line 207 writes through the null pointer otherwise.
ElfExec(p, argv, code, alloc) ==
  /\ pc[p] = "elf_exec"
  /\ IF ~alloc
     THEN Abort(p, Faulted(inv[p], "mem"), "NullDeref")
     ELSE IF CanExec(inv[p].tmp)
     THEN ExecV(p, inv[p], "tmp", inv[p].tmp, argv, code)
     ELSE Fail(p, [inv[p] EXCEPT !.tmp = NoFile], "LaunchFailed")
  /\ UNCHANGED <<dir, bin, meta, runs>>

(* ---------------- decompress_and_execute (PE) ---------------- *)
\* DWORD is 32 bits wide; narrowed as CC_LONG is.
DWORD_RANGE == CC_LONG_RANGE

\* Lines 122-128 with read_file, lines 34-72: ReadFile is asked for
\* (DWORD)size bytes and anything but size bytes read is an error.
PeStart(p, c, alloc) ==
  /\ pc[p] = "idle"
  /\ runs < MaxRuns
  /\ runs' = runs + 1
  /\ LET r == [Fresh EXCEPT !.family = "pe", !.c = c]
     IN IF ~c.readable \/ c.len % DWORD_RANGE # c.len
        THEN Fail(p, r, "CannotRead")
        ELSE IF ~alloc
        THEN Fail(p, Faulted(r, "mem"), "CannotRead")
        ELSE Set(p, r) /\ Goto(p, "pe_decompress")
  /\ UNCHANGED <<dir, bin, meta>>

\* Decompress(decompressor, input, compressed_size, output, original_size,
\* &decompressed_size): the pair <<success, decompressed_size>>. A payload
\* that does not fit the output buffer is an error.
WinResults(c) ==
  LET proper == IF c.plain = 0 \/ c.plain > c.original_size
                THEN <<FALSE, 0>> ELSE <<TRUE, c.plain>>
  IN IF c.compressed_size = PayloadBytes(c)
     THEN {proper}
     ELSE {proper, <<FALSE, 0>>}

\* decompress_data, line 106: decompressed_size != output_size is an error.
DecompressedSizeMatches(decompressed_size, output_size) ==
  decompressed_size = output_size

\* Lines 130-170 with decompress_data, lines 75-114. created: what
\* CreateDecompressor(header->algorithm, ..) returns.
PeDecompress(p, created, allocated, res) ==
  /\ pc[p] = "pe_decompress"
  /\ LET r == inv[p]
         c == inv[p].c
         called == [r EXCEPT !.backendCalls = @ + 1,
                             !.src_size = c.compressed_size,
                             !.result = res[2]]
     IN IF c.len < HeaderSize THEN Fail(p, r, "TooSmall")
        ELSE IF c.magic # MAGIC_SEPE THEN Fail(p, r, "BadMagic")
        ELSE IF ~created THEN Fail(p, r, "Unsupported")
        ELSE IF ~allocated THEN Fail(p, r, "AllocFailed")
        ELSE /\ res \in WinResults(c)
             /\ IF ~res[1] THEN Fail(p, called, "DecompressionFailed")
                ELSE IF ~DecompressedSizeMatches(res[2], c.original_size)
                THEN Fail(p, called, "SizeMismatch")
                ELSE Set(p, called) /\ Goto(p, "pe_temp")
  /\ UNCHANGED <<dir, bin, meta, runs>>

\* Lines 176-209: GetTempPathA and GetTempFileNameA (which creates the file
\* it names), ".exe" appended to the name, CreateFileA(CREATE_ALWAYS) of
\* that path.
PeTempFile(p, named, created) ==
  /\ pc[p] = "pe_temp"
  /\ IF ~named
     THEN Fail(p, inv[p], "TempFailed")
     ELSE IF ~created
     THEN Fail(p, [inv[p] EXCEPT !.wrote = @ \cup {"tmpname"}], "TempFailed")
     ELSE /\ Set(p, [inv[p] EXCEPT !.tmp = [exists |-> TRUE, content |-> Empty,
                                           exec |-> TRUE, complete |-> FALSE],
                                   !.wrote = @ \cup {"tmpname", "tmp"}])
          /\ Goto(p, "pe_write")
  /\ UNCHANGED <<dir, bin, meta, runs>>

\* Lines 211-223: one WriteFile of (DWORD)original_size bytes; anything but
\* original_size bytes written deletes the file and returns 1.
PeWrite(p, written) ==
  /\ pc[p] = "pe_write"
  /\ LET data == Decompressed(p)
     IN /\ written <= data.n % DWORD_RANGE
        /\ IF written # data.n
           THEN Fail(p, [inv[p] EXCEPT !.tmp = NoFile], "WriteFailed")
           ELSE /\ Set(p, [inv[p] EXCEPT !.tmp.content = data, !.tmp.complete = TRUE])
                /\ Goto(p, "pe_create_process")
  /\ UNCHANGED <<dir, bin, meta, runs>>

RECURSIVE Flatten(_)
Flatten(argv) == IF argv = <<>> THEN <<>> ELSE Head(argv) \o Flatten(Tail(argv))

\* Lines 232-244: the command line, as the words a blank separates: the
\* quoted path, then " " and argv[i] as it is for i = 2 .. argc-1.
CmdLine(path, argv) == <<path>> \o Flatten(argv)

\* The argument vector the started program's runtime splits the command
\* line into: one argument per word.
ArgvOfCmdLine(words) == [i \in 1..Len(words) |-> <<words[i]>>]

\* Lines 246-258: CreateProcessA(temp_path, cmdline, ..); on failure the
\* temporary file is deleted and 1 returned.
PeCreateProcess(p, ok, argv) ==
  /\ pc[p] = "pe_create_process"
  /\ LET f == inv[p].tmp
     IN IF ok /\ CanExec(f)
        THEN /\ Set(p, [inv[p] EXCEPT
                          !.outcome = "launched",
                          !.ran = [path |-> "tmp", content |-> f.content,
                                   complete |-> f.complete, exec |-> f.exec],
                          !.argv = argv,
                          !.new_argv = ArgvOfCmdLine(CmdLine("tmp", argv))])
             /\ Goto(p, "pe_wait")
        ELSE Fail(p, [inv[p] EXCEPT !.tmp = NoFile], "LaunchFailed")
  /\ UNCHANGED <<dir, bin, meta, runs>>

\* Lines 260-275: wait for the program, take its exit code, delete the
\* temporary file, return the exit code.
PeWait(p, code) ==
  /\ pc[p] = "pe_wait"
  /\ Set(p, [inv[p] EXCEPT !.exit = code, !.tmp = NoFile])
  /\ Goto(p, "done")
  /\ UNCHANGED <<dir, bin, meta, runs>>

(* ---------------- the compressors ---------------- *)
\* The program a compressor is given. valid: it has the format the tool
\* verifies (ParseMachOHeader and FindTextSegment, verify_elf, verify_pe).
Binaries ==
  { [readable |-> TRUE, n |-> 2, tag |-> 1, valid |-> TRUE],
    [readable |-> TRUE, n |-> 2, tag |-> 1, valid |-> FALSE],
    [readable |-> TRUE, n |-> 0, tag |-> 0, valid |-> FALSE],
    [readable |-> FALSE, n |-> 2, tag |-> 1, valid |-> TRUE],
    [readable |-> TRUE, n |-> BigSize, tag |-> 1, valid |-> TRUE] }

\* struct CompressedHeader as the compressors declare it: offset and width
\* of each field.
WriterLayout == [magic |-> <<0, 4>>, algorithm |-> <<4, 4>>,
                 original_size |-> <<8, 8>>, compressed_size |-> <<16, 8>>]

\* struct CompressedHeader as the decompressors declare it.
ReaderLayout_Swapped == [magic |-> <<0, 4>>, algorithm |-> <<4, 4>>,
                         original_size |-> <<16, 8>>, compressed_size |-> <<8, 8>>]

ReaderLayout == [magic |-> <<0, 4>>, algorithm |-> <<4, 4>>,
                 original_size |-> <<8, 8>>, compressed_size |-> <<16, 8>>]

\* sizeof(header)
SizeOf(layout) ==
  LET RECURSIVE Sum(_)
      Sum(fs) == IF fs = {} THEN 0
                 ELSE LET f == CHOOSE f \in fs : TRUE
                      IN layout[f][2] + Sum(fs \ {f})
  IN Sum(DOMAIN layout)

\* The bytes of a header object: what lies at each offset.
HeaderBytes(layout, header) ==
  [o \in { layout[f][1] : f \in DOMAIN layout } |->
     LET f == CHOOSE f \in DOMAIN layout : layout[f][1] = o
     IN <<layout[f][2], header[f]>>]

\* header->field of a pointer cast onto those bytes.
ReadField(bytes, at) ==
  IF at[1] \in DOMAIN bytes /\ bytes[at[1]][1] = at[2]
  THEN bytes[at[1]][2]
  ELSE 0

\* The file `header bytes, then the payload' as a decompressor reads it.
\* in: the program the payload encodes.
OutputFile(header, compressed_size, in) ==
  LET bytes == HeaderBytes(WriterLayout, header)
  IN [id |-> 70 + in.tag, readable |-> TRUE,
      len |-> SizeOf(WriterLayout) + compressed_size,
      magic |-> ReadField(bytes, ReaderLayout.magic),
      algorithm |-> ReadField(bytes, ReaderLayout.algorithm),
      original_size |-> ReadField(bytes, ReaderLayout.original_size),
      compressed_size |-> ReadField(bytes, ReaderLayout.compressed_size),
      plain |-> in.n, ptag |-> in.tag,
      markerAt |-> NoMarker, specLen |-> 0, specTag |-> 0]

\* The three ends of a compressor's write of the output file.
OutputWrites == {"unopened", "short", "whole"}

\* A compressor run ends: return 1 (or false) after an error message.
Rejected(p, r, e) ==
  /\ Set(p, [r EXCEPT !.outcome = "rejected", !.err = e, !.exit = 1])
  /\ Goto(p, "done")

\* WriteFile / write_file of the output, then return 0 (or true).
WriteOutput(p, r, header, compressed_size, in, how) ==
  IF how = "unopened"
  THEN Rejected(p, r, "CannotCreate")
  ELSE IF how = "short"
  THEN Rejected(p, [r EXCEPT !.wrote = {"output"}], "CannotWrite")
  ELSE /\ Set(p, [r EXCEPT !.outcome = "compressed", !.exit = 0,
                           !.wrote = {"output"},
                           !.src_size = in.n, !.result = compressed_size,
                           !.c = OutputFile(header, compressed_size, in)])
       /\ Goto(p, "done")

MachoQualities == {"lz4", "zlib", "lzfse", "lzma"}

GetCompressionAlgorithm(quality) ==
  CASE quality = "lz4" -> "COMPRESSION_LZ4"
    [] quality = "zlib" -> "COMPRESSION_ZLIB"
    [] quality = "lzfse" -> "COMPRESSION_LZFSE"
    [] quality = "lzma" -> "COMPRESSION_LZMA"
    [] OTHER -> "COMPRESSION_LZFSE"

\* quality: the --quality argument as main has parsed it.
\* CompressMachO. encoded: what compression_encode_buffer returns, 0 when it
\* fails; mem: the vectors get their memory, otherwise std::bad_alloc leaves
\* main, which has no handler.
CompressMachO(p, in, quality, mem, encoded, how) ==
  /\ pc[p] = "idle"
  /\ runs < MaxRuns
  /\ runs' = runs + 1
  /\ LET r == [Fresh EXCEPT !.family = "macho", !.quality = quality]
         original_size == in.n
         header == [magic |-> MAGIC_SCMP,
                    algorithm |-> GetCompressionAlgorithm(quality),
                    original_size |-> original_size,
                    compressed_size |-> encoded]
     IN IF ~in.readable \/ in.n = 0
        THEN Rejected(p, r, "CannotRead")
        ELSE IF ~mem
        THEN Abort(p, Faulted(r, "mem"), "BadAlloc")
        ELSE IF ~in.valid
        THEN Rejected(p, r, "NotMachO")
        ELSE IF encoded = 0
        THEN Rejected(p, r, "CompressionFailed")
        ELSE WriteOutput(p, r, header, encoded, in, how)
  /\ UNCHANGED <<dir, bin, meta>>

ElfQualities == {"lzma", "zstd", "lz4"}

get_algorithm_id(quality) ==
  CASE quality = "lz4" -> ALGO_LZ4
    [] quality = "zstd" -> ALGO_ZSTD
    [] quality = "lzma" -> ALGO_LZMA
    [] OTHER -> ALGO_LZMA

\* lzma_stream_buffer_encode(.., out, out_pos, out_size): the stream is
\* written to out[*out_pos .. out_size-1]; LZMA_BUF_ERROR when it does not
\* fit there, and *out_pos is then left as it was. fits: the room, where
\* there is any, is enough.
lzma_stream_buffer_encode(out_pos, out_size, fits, produced) ==
  IF out_pos >= out_size \/ ~fits
  THEN [ret |-> "LZMA_BUF_ERROR", out_pos |-> out_pos]
  ELSE [ret |-> "LZMA_OK", out_pos |-> out_pos + produced]

\* compress_lzma, lines 118-166: *compressed_size is set to output_capacity
\* and handed over as out_pos.
compress_lzma(input_size, allocated, fits, produced) ==
  LET output_capacity == input_size + (input_size \div 20) + BlockSize
      enc == lzma_stream_buffer_encode(output_capacity, output_capacity,
                                       fits, produced)
  IN IF ~allocated THEN [ok |-> FALSE, compressed_size |-> 0]
     ELSE IF enc.ret # "LZMA_OK" THEN [ok |-> FALSE, compressed_size |-> 0]
     ELSE [ok |-> TRUE, compressed_size |-> enc.out_pos]

\* compress_elf.
compress_elf(p, in, quality, allocated, fits, how) ==
  /\ pc[p] = "idle"
  /\ runs < MaxRuns
  /\ runs' = runs + 1
  /\ LET r == [Fresh EXCEPT !.family = "elf", !.quality = quality]
         input_size == in.n
         packed == compress_lzma(input_size, allocated, fits, PayloadLen)
         header == [magic |-> MAGIC_SELF,
                    algorithm |-> get_algorithm_id(quality),
                    original_size |-> input_size,
                    compressed_size |-> packed.compressed_size]
     IN IF ~in.readable
        THEN Rejected(p, r, "CannotRead")
        ELSE IF ~in.valid
        THEN Rejected(p, r, "NotElf")
        ELSE IF quality # "lzma"
        THEN Rejected(p, r, "OnlyLzma")
        ELSE IF ~packed.ok
        THEN Rejected(p, r, "CompressionFailed")
        ELSE WriteOutput(p, r, header, packed.compressed_size, in, how)
  /\ UNCHANGED <<dir, bin, meta>>

PeQualities == {"xpress", "xpress_huff", "lzms"}

get_windows_algorithm(quality) ==
  CASE quality = "xpress" -> "COMPRESS_ALGORITHM_XPRESS"
    [] quality = "xpress_huff" -> "COMPRESS_ALGORITHM_XPRESS_HUFF"
    [] quality = "lzms" -> "COMPRESS_ALGORITHM_LZMS"
    [] OTHER -> "COMPRESS_ALGORITHM_LZMS"

\* compress_pe. read_file asks ReadFile for (DWORD)size bytes and fails when
\* fewer than size came; compressed: Compress succeeded with PayloadLen
\* bytes.
compress_pe(p, in, quality, compressed, how) ==
  /\ pc[p] = "idle"
  /\ runs < MaxRuns
  /\ runs' = runs + 1
  /\ LET r == [Fresh EXCEPT !.family = "pe", !.quality = quality]
         input_size == in.n
         header == [magic |-> MAGIC_SEPE,
                    algorithm |-> get_windows_algorithm(quality),
                    original_size |-> input_size,
                    compressed_size |-> PayloadLen]
     IN IF ~in.readable \/ in.n % DWORD_RANGE # in.n
        THEN Rejected(p, r, "CannotRead")
        ELSE IF ~in.valid
        THEN Rejected(p, r, "NotPe")
        ELSE IF ~compressed
        THEN Rejected(p, r, "CompressionFailed")
        ELSE WriteOutput(p, r, header, PayloadLen, in, how)
  /\ UNCHANGED <<dir, bin, meta>>

(* ---------------- LoadBuiltinSourceWithBrotli ---------------- *)
\* A builtin source, as a file of the same make: readable: GetData hands out
\* its bytes (a one-byte string with a resource); len: data_size; magic: its
\* first four bytes; original_size: the eight bytes after them; plain,
\* ptag: what the bytes from offset 12 on decode to (plain = 0: not a
\* Brotli stream).
BuiltinSource == [Base EXCEPT !.id = 80, !.magic = MAGIC_BROT,
                              !.len = BROTLI_HEADER_SIZE + PayloadLen]

Sources ==
  { BuiltinSource,
    [BuiltinSource EXCEPT !.id = 81, !.readable = FALSE],
    [BuiltinSource EXCEPT !.id = 82, !.len = 0],
    [BuiltinSource EXCEPT !.id = 83, !.len = BROTLI_HEADER_SIZE - 1],
    [BuiltinSource EXCEPT !.id = 84, !.magic = 0],
    [BuiltinSource EXCEPT !.id = 85, !.original_size = 0],
    [BuiltinSource EXCEPT !.id = 86, !.original_size = MAX_DECOMPRESSED_SIZE + 1],
    [BuiltinSource EXCEPT !.id = 87, !.plain = 0],
    [BuiltinSource EXCEPT !.id = 88, !.plain = 1],
    [BuiltinSource EXCEPT !.id = 89, !.plain = 3],
    [BuiltinSource EXCEPT !.id = 79, !.original_size = MAX_DECOMPRESSED_SIZE,
                          !.plain = MAX_DECOMPRESSED_SIZE] }

\* BrotliDecoderDecompress(compressed_size, compressed, &actual_size, out):
\* *actual_size is the room on entry and the decoded length on success; a
\* stream that decodes to more than the room is an error.
BrotliDecoderDecompress(source, decoded_size) ==
  IF source.plain = 0 \/ source.plain > decoded_size
  THEN [result |-> "BROTLI_DECODER_RESULT_ERROR", actual_size |-> decoded_size]
  ELSE [result |-> "BROTLI_DECODER_RESULT_SUCCESS", actual_size |-> source.plain]

\* return source.ToStringChecked(isolate)
StandardLoading(p, r, why) ==
  /\ Set(p, [r EXCEPT !.outcome = "standard", !.err = why])
  /\ Goto(p, "done")

\* Lines 112-175. allocated: std::make_unique<uint8_t[]> gets its memory,
\* otherwise std::bad_alloc leaves the function; created: NewFromOneByte
\* hands back a string.
LoadBuiltinSourceWithBrotli(p, source, allocated, created) ==
  /\ pc[p] = "idle"
  /\ runs < MaxRuns
  /\ runs' = runs + 1
  /\ LET r == [Fresh EXCEPT !.family = "builtin", !.c = source]
         data_size == IF source.readable THEN source.len ELSE 0
         decompressed_size == source.original_size
         dec == BrotliDecoderDecompress(source, decompressed_size)
         r1 == [r EXCEPT !.wrote = {"buffer"}, !.backendCalls = 1,
                         !.result = dec.actual_size]
     IN IF ~source.readable \/ data_size = 0
        THEN StandardLoading(p, r, "NoData")
        ELSE IF data_size < BROTLI_HEADER_SIZE \/ source.magic # MAGIC_BROT
        THEN StandardLoading(p, r, "NoMagic")
        ELSE IF decompressed_size = 0 \/ decompressed_size > MAX_DECOMPRESSED_SIZE
        THEN StandardLoading(p, r, "BadSize")
        ELSE IF ~allocated
        THEN Abort(p, Faulted(r, "mem"), "BadAlloc")
        ELSE IF dec.result # "BROTLI_DECODER_RESULT_SUCCESS"
                \/ dec.actual_size # decompressed_size
        THEN StandardLoading(p, r1, "DecodeFailed")
        ELSE IF ~created
        THEN StandardLoading(p, r1, "NoString")
        ELSE /\ Set(p, [r1 EXCEPT !.outcome = "brotli"])
             /\ Goto(p, "done")
  /\ UNCHANGED <<dir, bin, meta>>

(* ---------------- the environment ---------------- *)
\* The invocation has ended; the slot takes the next invocation.
Finish(p) ==
  /\ pc[p] = "done"
  /\ Set(p, Fresh)
  /\ Goto(p, "idle")
  /\ UNCHANGED <<dir, bin, meta, runs>>

Quiet == \A p \in Procs : pc[p] = "idle"

\* Between invocations, while another invocation is still to come,
\* something else rewrites in place the bytes of a cached artifact that is
\* fully written and has a checksum on record.
MutateArtifact(k) ==
  /\ Quiet
  /\ runs < MaxRuns
  /\ bin[k].exists /\ bin[k].complete
  /\ meta[k].hasChecksum
  /\ bin[k].content # Empty
  /\ bin[k].content.tag # TamperTag
  /\ bin' = [bin EXCEPT ![k].content = Vec(@.n, TamperTag)]
  /\ UNCHANGED <<dir, meta, pc, inv, runs>>

(* ---------------- specifications ---------------- *)
Results == UNION { BackendResults(c) : c \in Containers }

LzmaAll == UNION { LzmaResults(c) : c \in Containers }

Writtens == {0} \cup { c.original_size : c \in Containers }

Step(p, Inputs, Args, Codes) ==
  \/ \E c \in Inputs, home, mem \in BOOLEAN : MachoStart(p, c, home, mem)
  \/ MachoLookup(p)
  \/ \E opened \in BOOLEAN : MachoHashCached(p, opened)
  \/ MachoReadMeta(p)
  \/ \E argv \in Args, code \in Codes : MachoExecHit(p, argv, code)
  \/ \E mapped \in BOOLEAN, result \in Results : MachoDecompress(p, mapped, result)
  \/ MachoMkdirStat(p)
  \/ \E ok \in BOOLEAN : MachoMkdir(p, ok)
  \/ \E ok \in BOOLEAN : MachoWriteOpen(p, ok)
  \/ \E ok \in BOOLEAN : MachoWriteFirst(p, ok)
  \/ \E ok \in BOOLEAN : MachoWriteRest(p, ok)
  \/ \E ok \in BOOLEAN : MachoChmod(p, ok)
  \/ \E how \in MetaWrites : MachoWriteMeta(p, how)
  \/ \E argv \in Args, code \in Codes : MachoExecMiss(p, argv, code)

\* The ELF and PE decompressors do not look for an identifier: containers
\* that carry one are no other input to them than those that carry none.
PlainInputs == { c \in Containers : c.markerAt = NoMarker }

ElfStep(p) ==
  \/ \E c \in PlainInputs : ElfStart(p, c)
  \/ \E allocated \in BOOLEAN, res \in LzmaAll : ElfDecompress(p, allocated, res)
  \/ \E ok \in BOOLEAN : ElfMkstemp(p, ok)
  \/ \E written \in Writtens : ElfWrite(p, written)
  \/ \E ok \in BOOLEAN : ElfChmod(p, ok)
  \/ \E argv \in ArgLists, code \in ChildCodes, alloc \in BOOLEAN :
        ElfExec(p, argv, code, alloc)

WinAll == UNION { WinResults(c) : c \in Containers }

PeStep(p) ==
  \/ \E c \in PlainInputs, alloc \in BOOLEAN : PeStart(p, c, alloc)
  \/ \E created, allocated \in BOOLEAN, res \in WinAll :
        PeDecompress(p, created, allocated, res)
  \/ \E named, created \in BOOLEAN : PeTempFile(p, named, created)
  \/ \E written \in Writtens : PeWrite(p, written)
  \/ \E ok \in BOOLEAN, argv \in ArgLists : PeCreateProcess(p, ok, argv)
  \/ \E code \in ChildCodes : PeWait(p, code)

Families == {"macho", "elf", "pe"}

\* One invocation at a time, one after the other.
First == CHOOSE p \in Procs : \A q \in Procs : p <= q

Next ==
  \/ Step(First, Containers, ArgLists, ChildCodes)
  \/ ElfStep(First)
  \/ PeStep(First)
  \/ \E family \in Families : Usage(First, family)
  \/ Finish(First)
  \/ \E k \in Keys : MutateArtifact(k)

Spec == Init /\ [][Next]_vars

\* Invocations of the Mach-O decompressor running at the same time on
\* containers that carry the same identifier, from an empty cache.
SameKeyInputs == { c \in WellFormed : c.magic = MAGIC_SCMP /\ c.specTag = SpecTagA
                                      /\ c.original_size < CC_LONG_RANGE }

\* The same, with the containers that carry that identifier elsewhere.
SameSpecInputs == SameKeyInputs \cup MarkerElsewhere

\* The racing invocations forward one argument to a program that ends
\* with exit code 0.
RaceArgs == { << <<"v">> >> }

RaceCodes == {0}

NextRace ==
  \/ \E p \in Procs : Step(p, SameSpecInputs, RaceArgs, RaceCodes)
  \/ \E p \in Procs : Finish(p)

SpecRace == Init /\ [][NextRace]_vars

\* The compressors and the builtin loader, one run after the other in a
\* slot of their own, next to the ELF decompressor.
Second == CHOOSE p \in Procs : p # First

CompressStep(p) ==
  \/ \E in \in Binaries, quality \in MachoQualities, mem \in BOOLEAN,
        encoded \in {0, PayloadLen}, how \in OutputWrites :
        CompressMachO(p, in, quality, mem, encoded, how)
  \/ \E in \in Binaries, quality \in ElfQualities, allocated, fits \in BOOLEAN,
        how \in OutputWrites :
        compress_elf(p, in, quality, allocated, fits, how)
  \/ \E in \in Binaries, quality \in PeQualities, compressed \in BOOLEAN,
        how \in OutputWrites :
        compress_pe(p, in, quality, compressed, how)

NextCompress ==
  \/ CompressStep(Second)
  \/ \E source \in Sources, allocated, created \in BOOLEAN :
        LoadBuiltinSourceWithBrotli(Second, source, allocated, created)
  \/ Finish(Second)
  \/ ElfStep(First)
  \/ Finish(First)

SpecCompress == Init /\ [][NextCompress]_vars

\* The cache as a first invocation of the Mach-O decompressor on a
\* container with identifier leaves it when every step succeeds: the entry
\* of that container complete, all other keys without entry.
CachedContainer == CHOOSE c \in SameKeyInputs : c.ptag = 1

InitCached ==
  LET c == CachedContainer
      k == CacheKeyOf(c)
      artifact == Vec(c.original_size, c.ptag)
  IN /\ dir = [j \in Keys |-> j = k]
     /\ bin = [j \in Keys |->
                IF j = k THEN [exists |-> TRUE, content |-> artifact,
                               exec |-> TRUE, complete |-> TRUE]
                ELSE NoFile]
     /\ meta = [j \in Keys |->
                 IF j = k THEN [exists |-> TRUE, hasChecksum |-> TRUE,
                                checksum |-> CalculateSHA512(artifact),
                                timestamp |-> 1]
                 ELSE NoMeta]
     /\ pc = [p \in Procs |-> "idle"]
     /\ inv = [p \in Procs |-> Fresh]
     /\ runs = 0

\* Invocations that follow, one after the other, on that container and on
\* one without identifier.
CachedInputs == {CachedContainer, Base}

NextCached ==
  \/ Step(First, CachedInputs, RaceArgs, RaceCodes)
  \/ Finish(First)

SpecCached == InitCached /\ [][NextCached]_vars

(* ---------------- properties ---------------- *)
Done(p) == pc[p] = "done"

Launched(p) == inv[p].outcome = "launched"

\* C1: in the Mach-O decompressor, an invocation that starts when the cached
\* artifact exists and the metadata record holds a checksum different from
\* the full SHA-512 of the artifact bytes on disk does not launch that
\* artifact.
C1_MismatchNotLaunched ==
  \A p \in Procs :
    (inv[p].family = "macho" /\ inv[p].startMismatch) =>
       ~(Launched(p) /\ CalculateFileSHA512(inv[p].ran.content) = inv[p].cached_sha512)

\* C2: for invocations racing on one cache key from an empty cache, the
\* file an invocation finds at the canonical path and takes for a hit, and
\* the file an invocation executes, is fully written and has its executable
\* bits set.
C2_HitOnlyOnValid ==
  \A p \in Procs :
    /\ inv[p].seen.exists => (inv[p].seen.complete /\ inv[p].seen.exec)
    /\ Launched(p) => (inv[p].ran.complete /\ inv[p].ran.exec)

\* C3: the decompression backend is only ever handed a payload length equal
\* to the number of bytes that follow the 24-byte header; a container with
\* header_size + compressed_size # file length is rejected before it.
C3_BackendGetsActualLength ==
  \A p \in Procs :
    inv[p].backendCalls > 0 => inv[p].src_size = PayloadBytes(inv[p].c)

\* C4: a Mach-O invocation whose container is shorter than the header or has
\* the wrong magic never launches an artifact, whatever the cache holds.
C4_InvalidNeverLaunches ==
  \A p \in Procs :
    (/\ inv[p].family = "macho"
     /\ (inv[p].c.len < HeaderSize \/ inv[p].c.magic # MAGIC_SCMP))
    => ~Launched(p)

\* C5: when the backend returns a length different from original_size the
\* invocation has failed with the size-mismatch error, has written nothing
\* (cache or temporary file) and has launched nothing.
C5_SizeMismatchAborts ==
  \A p \in Procs :
    (inv[p].backendCalls > 0 /\ inv[p].result # 0
       /\ inv[p].result # inv[p].c.original_size)
    => /\ Done(p)
       /\ inv[p].outcome = "failed"
       /\ inv[p].err = "SizeMismatch"
       /\ inv[p].wrote = {}
       /\ inv[p].tmp = NoFile
       /\ inv[p].ran = NotRun

C5_Witness ==
  \E p \in Procs :
    /\ Done(p)
    /\ inv[p].backendCalls = 1
    /\ inv[p].result = inv[p].c.original_size - 1
    /\ inv[p].result > 0
    /\ inv[p].err = "SizeMismatch"

\* C6: a Mach-O invocation that starts on an entry a complete Populate of
\* the same container left, and meets no I/O fault, ends as a Verified Hit:
\* it launches the cached artifact, never calls the backend and writes
\* nothing to the cache.
C6_SecondRunVerifiedHit ==
  \A p \in Procs :
    (Done(p) /\ inv[p].family = "macho" /\ inv[p].startValid /\ inv[p].faults = {})
    => /\ Launched(p)
       /\ inv[p].verified = "verified"
       /\ inv[p].backendCalls = 0
       /\ inv[p].wrote = {}

\* C7: when a Miss-path invocation stands at the launch step, the cache
\* directory holds the artifact and a metadata record whose checksum is the
\* full-length digest of the artifact bytes that were written.
C7_MissLaunchHasChecksum ==
  \A p \in Procs :
    pc[p] = "exec_miss" =>
      LET k == inv[p].cacheKey
      IN /\ dir[k] /\ bin[k].exists
         /\ meta[k].exists /\ meta[k].hasChecksum
         /\ meta[k].checksum = CalculateFileSHA512(Decompressed(p))

\* C8: a Mach-O invocation that found the recorded checksum different from
\* the digest of the cached artifact and went on to launch has run one fresh
\* decompression, has rewritten the artifact, and the artifact it launched
\* matches the checksum of the metadata.
C8_MismatchRebuilds ==
  \A p \in Procs :
    (Launched(p) /\ inv[p].family = "macho" /\ inv[p].startMismatch
       /\ inv[p].faults = {})
    => /\ inv[p].backendCalls = 1
       /\ "artifact" \in inv[p].wrote
       /\ meta[inv[p].cacheKey].checksum = CalculateFileSHA512(inv[p].ran.content)

\* C9: once creating the cache directory or writing the artifact has failed
\* in Populate, the invocation has returned 1: it has launched nothing and
\* has used no temporary file.
C9_PopulateFailureIsFatal ==
  \A p \in Procs :
    (inv[p].faults \cap {"mkdir", "write"} # {})
    => /\ Done(p)
       /\ inv[p].outcome = "failed"
       /\ inv[p].ran = NotRun
       /\ inv[p].tmp = NoFile

C9_Witness ==
  /\ \E p \in Procs : Done(p) /\ "write" \in inv[p].faults
                       /\ bin[inv[p].cacheKey].exists
                       /\ ~bin[inv[p].cacheKey].complete

\* C10: an invocation under which setting the executable bits failed, and
\* nothing else, ends failed, without having written the metadata record
\* and without launching.
C10_ChmodFailureAborts ==
  \A p \in Procs :
    (Done(p) /\ inv[p].faults = {"chmod"})
    => /\ inv[p].outcome = "failed"
       /\ "meta" \notin inv[p].wrote
       /\ inv[p].ran = NotRun

\* C11: a Mach-O invocation on a readable container that holds the marker
\* followed by a non-empty identifier and a newline, at whatever offset,
\* derives its key from the identifier (strategy 1); one on a container
\* without an identifier derives it from the container bytes (strategy 2).
HasIdentifier(c) == c.markerAt # NoMarker /\ c.specLen > 0

C11_MarkerAnywhereKeysBySpec ==
  \A p \in Procs :
    (inv[p].family = "macho" /\ inv[p].c.readable)
    => IF HasIdentifier(inv[p].c)
       THEN inv[p].cacheKey =
              CalculateCacheKey(Vec(inv[p].c.specLen, inv[p].c.specTag))
       ELSE inv[p].cacheKey = CalculateCacheKey(FileBytes(inv[p].c))

\* C12: two Mach-O invocations on byte-identical containers hold the same
\* key, whatever the cache held when each started; two invocations on
\* containers that carry the same identifier hold the same key, whatever
\* their other bytes are.
SameIdentifier(c, d) ==
  /\ HasIdentifier(c) /\ HasIdentifier(d)
  /\ c.specLen = d.specLen /\ c.specTag = d.specTag

C12_KeyDependsOnContentOnly ==
  \A p, q \in Procs :
    (inv[p].family = "macho" /\ inv[q].family = "macho")
    => /\ FileBytes(inv[p].c) = FileBytes(inv[q].c)
            => inv[p].cacheKey = inv[q].cacheKey
       /\ SameIdentifier(inv[p].c, inv[q].c)
            => inv[p].cacheKey = inv[q].cacheKey

\* C13: a Mach-O invocation on a readable, non-empty container without
\* identifier holds as key the 16-character prefix of the digest of all the
\* bytes of the file: as many bytes were hashed as the file is long.
C13_KeyHashesWholeFile ==
  \A p \in Procs :
    (/\ inv[p].family = "macho"
     /\ inv[p].c.readable /\ inv[p].c.len > 0
     /\ ~HasIdentifier(inv[p].c))
    => inv[p].cacheKey = HexOfSHA512(FileBytes(inv[p].c), KeyChars)

\* C14: once the artifact of a key is fully written and the metadata record
\* holds the digest of its bytes, no step of an invocation changes the
\* artifact file or the metadata file of that key.
EntryCreated(k) ==
  /\ bin[k].exists /\ bin[k].complete
  /\ meta[k].exists /\ meta[k].hasChecksum
  /\ meta[k].checksum = CalculateFileSHA512(bin[k].content)

C14_EntryReadOnly ==
  [][\A k \in Keys :
       EntryCreated(k) => (bin'[k] = bin[k] /\ meta'[k] = meta[k])]_vars

\* C15: a Mach-O invocation that starts on the entry a complete Populate of
\* its container left and, the cached file not opening for the hash, runs
\* Populate again without a failing write, stands at the launch step with
\* the entry as it was at the start: the same artifact bytes and
\* permissions and the same metadata record.
PopulatedAgain(p) ==
  /\ inv[p].family = "macho"
  /\ inv[p].startValid
  /\ pc[p] = "exec_miss"
  /\ inv[p].faults = {"open_cached"}

C15_PopulateIdempotent ==
  \A p \in Procs :
    PopulatedAgain(p)
    => /\ dir[inv[p].cacheKey]
       /\ PopulatedEntry(inv[p].cacheKey, inv[p].c)
       /\ meta[inv[p].cacheKey] = inv[p].startMeta

\* C16: a Mach-O invocation that found the cached artifact, could hash it,
\* and whose metadata record was missing or held no checksum line, has ended
\* as an Unverified Hit: no backend call, nothing written, integrity not
\* reported as verified, and the cached file executed where execv takes it.
NoChecksumOnRecord(p) == ~inv[p].startMeta.exists \/ ~inv[p].startMeta.hasChecksum

Forwarded(new_argv, path, argv) ==
  /\ Len(new_argv) = Len(argv) + 1
  /\ new_argv[1] = <<path>>
  /\ \A k \in 1..Len(argv) : new_argv[k + 1] = argv[k]

C17_ArgvForwarded ==
  \A p \in Procs :
    Launched(p) => Forwarded(inv[p].new_argv, inv[p].ran.path, inv[p].argv)

\* C18: an invocation that has ended without launching a program has ended
\* with exit code 1; one that launched a program has ended with an exit
\* code of that program.
Invoked(p) == Done(p) /\ inv[p].family \in Families

C18_ExitCode ==
  \A p \in Procs :
    Invoked(p) =>
      IF Launched(p)
      THEN inv[p].exit \in ChildCodes
      ELSE inv[p].exit = 1

\* C19: no invocation calls the decompression backend more than once, and
\* an invocation whose backend call reported an error has ended with the
\* decompression-failed error and exit code 1, has created no directory
\* and no file, and has launched nothing.
BackendReportedError(p) == inv[p].backendCalls > 0 /\ inv[p].result = 0

C19_BackendOnceAndFatal ==
  \A p \in Procs :
    /\ inv[p].backendCalls <= 1
    /\ BackendReportedError(p)
         => /\ Done(p)
            /\ inv[p].outcome = "failed"
            /\ inv[p].err = "DecompressionFailed"
            /\ inv[p].exit = 1
            /\ inv[p].wrote = {}
            /\ inv[p].tmp = NoFile
            /\ inv[p].ran = NotRun

C19_Witness ==
  \E p \in Procs :
    /\ Done(p)
    /\ inv[p].family = "macho"
    /\ inv[p].backendCalls = 1
    /\ inv[p].result = 0
    /\ inv[p].err = "DecompressionFailed"

\* C20: an invocation that read a container of at least header length
\* whose magic field is not the constant of its decompressor, and met no
\* I/O fault, has ended with the bad-magic error and exit code 1, without
\* a backend call, without creating a directory or a file, and without
\* launching anything.
FamilyMagic(family) ==
  CASE family = "macho" -> MAGIC_SCMP
    [] family = "elf" -> MAGIC_SELF
    [] OTHER -> MAGIC_SEPE

ReadContainer(p) ==
  /\ Invoked(p)
  /\ inv[p].err \notin {"Usage", "CannotRead"}
  /\ inv[p].faults = {}

C20_BadMagicRejected ==
  \A p \in Procs :
    (/\ ReadContainer(p)
     /\ inv[p].c.len >= HeaderSize
     /\ inv[p].c.magic # FamilyMagic(inv[p].family))
    => /\ inv[p].outcome = "failed"
       /\ inv[p].err = "BadMagic"
       /\ inv[p].exit = 1
       /\ inv[p].backendCalls = 0
       /\ inv[p].wrote = {}
       /\ inv[p].tmp = NoFile
       /\ inv[p].ran = NotRun

\* C21: an invocation of any of the three decompressors on a readable file
\* shorter than the header, of whatever length from 0 on, that met no I/O
\* fault has ended with the too-small error and exit code 1, without a
\* backend call, without writing and without launching.
GivenShortFile(p) ==
  /\ Invoked(p)
  /\ inv[p].err # "Usage"
  /\ inv[p].c.readable
  /\ inv[p].c.len < HeaderSize
  /\ inv[p].faults = {}

C21_TooSmallRejected ==
  \A p \in Procs :
    GivenShortFile(p)
    => /\ inv[p].outcome = "failed"
       /\ inv[p].err = "TooSmall"
       /\ inv[p].exit = 1
       /\ inv[p].backendCalls = 0
       /\ inv[p].wrote = {}
       /\ inv[p].ran = NotRun

\* A compressor run of p has ended with the output file written.
Compressed(p) == Done(p) /\ inv[p].outcome = "compressed"

\* C22: the file a compressor has written is a header of HeaderSize bytes
\* followed by the payload; read through the decompressor's header struct
\* it carries the magic of the family, the length of the input as
\* original_size and the length of the payload as compressed_size, its
\* length is HeaderSize + compressed_size, and the payload is the encoding
\* of an input of original_size bytes.
C22_ContainerRoundTrip ==
  \A p \in Procs :
    Compressed(p)
    => LET c == inv[p].c
       IN /\ c.magic = FamilyMagic(inv[p].family)
          /\ c.original_size = inv[p].src_size
          /\ c.compressed_size = inv[p].result
          /\ c.len = HeaderSize + c.compressed_size
          /\ PayloadBytes(c) = inv[p].result
          /\ c.original_size = c.plain

C22_Witness ==
  \E p \in Procs :
    /\ Compressed(p)
    /\ inv[p].family = "macho"
    /\ inv[p].src_size = 2
    /\ inv[p].c.len = HeaderSize + PayloadLen

\* C23: in every family, the program an invocation launches is the file at
\* the canonical cache path <cache_root>/<key>/node, never a file at a
\* temporary path.
C23_LaunchedFromCache ==
  \A p \in Procs :
    (inv[p].family \in Families /\ Launched(p)) => inv[p].ran.path = "cache"

\* A call of LoadBuiltinSourceWithBrotli by p has ended.
Loaded(p) == Done(p) /\ inv[p].family = "builtin"

\* The string handed back was made from decompressed data.
FromBrotli(p) == inv[p].outcome = "brotli"

\* The conditions on the source under which the decompressed string is due.
Decodable(source) ==
  /\ source.readable
  /\ source.len >= BROTLI_HEADER_SIZE
  /\ source.magic = MAGIC_BROT
  /\ source.original_size \in 1..MAX_DECOMPRESSED_SIZE
  /\ source.plain = source.original_size

\* C24: LoadBuiltinSourceWithBrotli hands back a string made from
\* decompressed data only for a source that is accessible, at least 12 bytes
\* long, starts with BROT, declares a size within 1..50MB and decodes to
\* exactly that many bytes; in every other case it returns what
\* source.ToStringChecked returns; for a source without the magic no buffer
\* is allocated and the decoder is not called.
C24_BrotliOrStandard ==
  \A p \in Procs :
    Loaded(p)
    => /\ FromBrotli(p) => (Decodable(inv[p].c) /\ inv[p].result = inv[p].c.original_size)
       /\ ~FromBrotli(p) => inv[p].outcome = "standard"
       /\ (~inv[p].c.readable \/ inv[p].c.len < BROTLI_HEADER_SIZE
           \/ inv[p].c.magic # MAGIC_BROT)
          => (inv[p].backendCalls = 0 /\ inv[p].wrote = {})

\* The lookup of p came upon a file that an earlier write had left
\* unfinished.
FoundPartial(p) == inv[p].seen.exists /\ ~inv[p].seen.complete

\* C25: an invocation of the Mach-O decompressor whose lookup finds a file
\* that an earlier, failed write left unfinished at the canonical path does
\* not launch that file: what it launches, it has written in full itself.
C25_PartialNeverLaunched ==
  \A p \in Procs :
    (inv[p].family = "macho" /\ FoundPartial(p) /\ Launched(p))
    => /\ "artifact" \in inv[p].wrote
       /\ inv[p].ran.complete

\* C26: on the Miss path of the Mach-O decompressor nothing is written
\* under the cache root before the backend has been called and has
\* returned exactly original_size bytes and their digest has been taken;
\* the executable bits are set only on an artifact this invocation has
\* written; the metadata record is written only after the artifact has
\* been written and made executable; the launch comes after the metadata
\* step.
C26_MissPathOrder ==
  \A p \in Procs :
    inv[p].family = "macho"
    => /\ inv[p].wrote # {}
          => /\ inv[p].backendCalls = 1
             /\ SizeMatches(inv[p].result, inv[p].c.original_size)
             /\ inv[p].decompressed_sha512 # EmptyString
       /\ "mode" \in inv[p].wrote => "artifact" \in inv[p].wrote
       /\ "meta" \in inv[p].wrote => {"artifact", "mode"} \subseteq inv[p].wrote
       /\ (Launched(p) /\ "artifact" \in inv[p].wrote)
          => ("meta" \in inv[p].wrote \/ "meta" \in inv[p].faults)

\* C27: CreateDirectory of one invocation does not fail because another
\* invocation has created the directory since this one looked for it:
\* whenever the mkdir step ends an invocation with a failure, the
\* directory was not there when mkdir was called.
C27_MkdirToleratesOthers ==
  [][\A p \in Procs :
       (pc[p] = "mkdir" /\ pc'[p] = "done" /\ inv'[p].err = "MkdirFailed")
       => ~dir[inv[p].cacheKey]]_vars

\* The ELF decompressor was given a readable file with a whole header, the
\* magic of its family and an algorithm id other than ALGO_LZMA.
GivenOtherAlgorithm(p) ==
  /\ Invoked(p)
  /\ inv[p].family = "elf"
  /\ inv[p].quality = "none"
  /\ inv[p].err # "Usage"
  /\ inv[p].c.readable
  /\ inv[p].c.len >= HeaderSize
  /\ inv[p].c.magic = MAGIC_SELF
  /\ inv[p].c.algorithm # ALGO_LZMA

\* A run of the ELF compressor has ended.
ElfCompressorRan(p) ==
  Done(p) /\ inv[p].family = "elf" /\ inv[p].quality \in ElfQualities

PopulatedUntouched(p) ==
  /\ inv[p].family = "macho"
  /\ Done(p)
  /\ {"artifact", "meta"} \subseteq inv[p].wrote
  /\ inv[p].faults = {}
  /\ bin[inv[p].cacheKey].complete
  /\ bin[inv[p].cacheKey].content = Decompressed(p)

\* C29: for an artifact nobody has modified, the checksum that Populate has
\* put on record (CalculateSHA512 of the decompressed buffer) is the digest
\* the lookup computes from the file (CalculateFileSHA512), and the
\* comparison of the lookup finds the entry verified.
C29_DigestsAgree ==
  \A p \in Procs :
    PopulatedUntouched(p)
    => LET k == inv[p].cacheKey
       IN /\ meta[k].hasChecksum
          /\ meta[k].checksum = CalculateFileSHA512(bin[k].content)
          /\ VerifyAgainst(meta[k], CalculateFileSHA512(bin[k].content)) = "verified"

\* An invocation of the ELF or PE decompressor has ended after it had
\* created its temporary executable.
EndedWithTemp(p) ==
  /\ Invoked(p)
  /\ inv[p].family \in {"elf", "pe"}
  /\ inv[p].quality = "none"
  /\ "tmp" \in inv[p].wrote

\* C30: when the ELF or PE decompressor has returned 1 after creating the
\* temporary executable (short write, launch failure), the temporary
\* executable is gone; when the PE decompressor has returned after the
\* program it started has ended, the temporary executable is gone and the
\* value returned is the program's exit code.
C30_TempRemoved ==
  \A p \in Procs :
    EndedWithTemp(p)
    => /\ inv[p].outcome = "failed"
          => (~inv[p].tmp.exists /\ inv[p].exit = 1)
       /\ (inv[p].family = "pe" /\ Launched(p))
          => (~inv[p].tmp.exists /\ inv[p].exit \in ChildCodes)

C30_Witness ==
  /\ \E p \in Procs :
       /\ EndedWithTemp(p)
       /\ inv[p].family = "elf"
       /\ inv[p].err = "WriteFailed"
       /\ ~inv[p].tmp.exists

====
